---- MODULE Spec2Model ----
(***************************************************************************)
(* Model of crates/core/src/fs/addon.rs: delete_addons,                    *)
(* delete_saved_variables and install_addon acting on a filesystem.        *)
(*                                                                         *)
(* A string is a sequence of tokens: the punctuation "/", "\\", ".", "-"   *)
(* and words without punctuation ("Foo", "toc", "lua", "bak", ...).  A     *)
(* path is a sequence of components (each a string) from the filesystem    *)
(* root <<>>.  The disk maps every existing path to its kind and content.  *)
(***************************************************************************)
EXTENDS Naturals, Sequences, FiniteSets

VARIABLES
    op,             \* the entry point that was called
    pc,             \* position inside the running call; "done" after return
    disk,           \* the filesystem: path -> [kind, data]
    disk0,          \* the filesystem when the current call started
    addon_folders,  \* the AddonFolder list argument (addon.folders for install)
    archive,        \* the entries of the zip archive, in index order
    i,              \* loop index of the running for loop (1-based)
    pending,        \* new_top_level_folders still to be visited
    toc_files,      \* manifest paths collected so far
    result,         \* the value returned by the call
    written,        \* paths created or written by the extraction loop of this call
    io_failed,      \* an I/O operation of this call failed
    calls,          \* number of calls made so far
    prev,           \* result and filesystem of the previous call
    walk,           \* walk entries WalkDir has not yielded yet
    skipped,        \* walk entries dropped because of a walk error
    swallowed,      \* new top-level folders whose removal failed and was ignored
    failed_at       \* the step that raised the returned error

vars == <<op, pc, disk, disk0, addon_folders, archive, i, pending, toc_files,
          result, written, io_failed, calls, prev, walk, skipped, swallowed,
          failed_at>>

----------------------------------------------------------------------------
(* Bounds of the model. *)

MaxFolders == 3
MaxEntries == 2
MaxFiles == 3
MaxIds == 2

----------------------------------------------------------------------------
(* Strings and paths. *)

Word(w) == <<w>>

IsPrefix(p, q) == Len(p) <= Len(q) /\ SubSeq(q, 1, Len(p)) = p

Parent(p) == SubSeq(p, 1, Len(p) - 1)

FileName(p) == p[Len(p)]

Range(s) == {s[k] : k \in 1..Len(s)}

----------------------------------------------------------------------------
(* The filesystem. *)

Dir == [kind |-> "dir", data |-> "none"]

File(data) == [kind |-> "file", data |-> data]

exists(d, p) == p \in DOMAIN d

is_dir(d, p) == p \in DOMAIN d /\ d[p].kind = "dir"

is_file(d, p) == p \in DOMAIN d /\ d[p].kind = "file"

Children(d, p) == {q \in DOMAIN d : Len(q) = Len(p) + 1 /\ IsPrefix(p, q)}

Tree(d, p) == {q \in DOMAIN d : IsPrefix(p, q)}

Without(d, S) == [q \in DOMAIN d \ S |-> d[q]]

With(d, e) == [q \in DOMAIN d \cup DOMAIN e |-> IF q \in DOMAIN e THEN e[q] ELSE d[q]]

(* What a remove_dir_all of directory p has removed when it fails part-way: *)
(* it removes the children one after the other, depth first, in directory  *)
(* order, and stops at the first failure.                                  *)
RECURSIVE PartialRemovals(_, _)
PartialRemovals(d, p) ==
    LET C == Children(d, p)
        Gone(D) == UNION {Tree(d, c) : c \in D}
    IN  UNION { {Gone(D)} \cup
                UNION { {Gone(D) \cup r : r \in PartialRemovals(d, c)}
                        : c \in {c \in C \ D : d[c].kind = "dir"} }
              : D \in SUBSET C }

(* std::fs::remove_dir_all(p): the outcomes.  A path that is no directory  *)
(* is an error.  rmdir tells whether the final rmdir of p itself can       *)
(* succeed.                                                                *)
remove_dir_all(d, p, rmdir) ==
    IF ~is_dir(d, p)
    THEN {[disk |-> d, ok |-> FALSE, io |-> FALSE]}
    ELSE {[disk |-> Without(d, IF rmdir THEN Tree(d, p) ELSE Tree(d, p) \ {p}),
           ok |-> rmdir, io |-> FALSE]}
         \cup {[disk |-> Without(d, r), ok |-> FALSE, io |-> TRUE]
               : r \in PartialRemovals(d, p)}

(* std::fs::remove_file(p). *)
remove_file(d, p) ==
    IF ~is_file(d, p)
    THEN {[disk |-> d, ok |-> FALSE, io |-> FALSE]}
    ELSE {[disk |-> Without(d, {p}), ok |-> TRUE, io |-> FALSE],
          [disk |-> d, ok |-> FALSE, io |-> TRUE]}

----------------------------------------------------------------------------
(* The directory layout. *)

Interface == <<Word("wow"), Word("Interface")>>

to_directory == Interface \o <<Word("AddOns")>>

Outside == Interface \o <<Word("Keep")>>

FolderNames == {"Foo", "Bar", "Baz"}

AddonFolder(name) == [id |-> Word(name), path |-> to_directory \o <<Word(name)>>]

BaseDisk ==
    [p \in {SubSeq(to_directory, 1, k) : k \in 0..Len(to_directory)} \cup {Outside}
        |-> Dir]

(* A top-level folder left by an earlier installation, with one file. *)
FolderOnDisk(name) ==
    LET f == to_directory \o <<Word(name)>>
    IN  [p \in {f, f \o <<<<"old", ".", "lua">>>>} |-> IF p = f THEN Dir ELSE File("old")]

RECURSIVE WithFolders(_, _)
WithFolders(d, names) ==
    IF names = {} THEN d
    ELSE LET n == CHOOSE n \in names : TRUE
         IN  WithFolders(With(d, FolderOnDisk(n)), names \ {n})

SeqsUpTo(S, n) == UNION {[1..k -> S] : k \in 0..n}

NoResult == [ok |-> FALSE, folders |-> <<>>]

NoPrev == [result |-> NoResult, disk |-> << >>, clean |-> FALSE]

----------------------------------------------------------------------------
(* delete_addons *)

InitDelete ==
    /\ op = "delete_addons"
    /\ pc = "delete_addons"
    /\ \E present \in SUBSET FolderNames : disk = WithFolders(BaseDisk, present)
    /\ disk0 = disk
    /\ \E names \in SeqsUpTo(FolderNames, MaxFolders) :
           addon_folders = [k \in 1..Len(names) |-> AddonFolder(names[k])]
    /\ archive = <<>>
    /\ i = 1
    /\ pending = {}
    /\ toc_files = <<>>
    /\ result = NoResult
    /\ written = {}
    /\ io_failed = FALSE
    /\ calls = 1
    /\ prev = NoPrev
    /\ walk = {}
    /\ skipped = {}
    /\ swallowed = {}
    /\ failed_at = "none"

(* A removal that is not guarded. *)
RemovesAlways(d, path) == TRUE

(* `if path.exists()` guarding the removal of a listed folder. *)
ShouldRemove(d, path) == exists(d, path)

(* A failed removal that is not returned. *)
ErrorIgnored(o) == FALSE

(* The `?` on a removal: a failed removal returns the error at once. *)
Fails(o) == ~o.ok

(* One iteration of the for loop, or the return after the last one. *)
delete_addons ==
    /\ pc = "delete_addons"
    /\ IF i > Len(addon_folders)
       THEN /\ pc' = "done"
            /\ result' = [ok |-> TRUE, folders |-> <<>>]
            /\ UNCHANGED <<disk, i, io_failed, failed_at>>
       ELSE LET path == addon_folders[i].path
            IN  IF ShouldRemove(disk, path)
                THEN \E o \in remove_dir_all(disk, path, TRUE) :
                        /\ disk' = o.disk
                        /\ io_failed' = (io_failed \/ o.io)
                        /\ IF Fails(o)
                           THEN /\ pc' = "done"
                                /\ result' = NoResult
                                /\ failed_at' = pc
                                /\ UNCHANGED i
                           ELSE /\ i' = i + 1
                                /\ UNCHANGED <<pc, result, failed_at>>
                ELSE /\ i' = i + 1
                     /\ UNCHANGED <<disk, pc, result, io_failed, failed_at>>
    /\ UNCHANGED <<op, disk0, addon_folders, archive, pending, toc_files,
                   written, calls, prev, walk, skipped, swallowed>>

(* The caller calls delete_addons again with the same list. *)
DeleteAgain ==
    /\ op = "delete_addons"
    /\ pc = "done"
    /\ calls = 1
    /\ calls' = calls + 1
    /\ prev' = [result |-> result, disk |-> disk, clean |-> ~io_failed]
    /\ pc' = "delete_addons"
    /\ i' = 1
    /\ result' = NoResult
    /\ disk0' = disk
    /\ io_failed' = FALSE
    /\ UNCHANGED <<op, disk, addon_folders, archive, pending, toc_files, written, walk,
                   skipped, swallowed, failed_at>>

NextDelete == delete_addons \/ DeleteAgain

SpecDelete == InitDelete /\ [][NextDelete]_vars

----------------------------------------------------------------------------
(* Claims about delete_addons, checked under SpecDelete. *)

ListedPaths == {addon_folders[k].path : k \in 1..Len(addon_folders)}

ListedTrees(d) == UNION {Tree(d, p) : p \in ListedPaths}

(* C7: when no removal fails delete_addons returns success, no listed path *)
(* exists afterwards, exactly the trees of the listed folders that existed *)
(* are gone and nothing else changed; on the empty list nothing changes;   *)
(* a second call with the same list changes nothing and succeeds.          *)
C7_DeleteRemovesListed ==
    (op = "delete_addons" /\ pc = "done") =>
        /\ ~io_failed => result.ok
        /\ result.ok =>
              /\ \A p \in ListedPaths : ~exists(disk, p)
              /\ disk = Without(disk0, ListedTrees(disk0))
        /\ addon_folders = <<>> => (result.ok /\ disk = disk0)
        /\ (calls > 1 /\ prev.result.ok) => (result.ok /\ disk = prev.disk)

(* A successful first call that removed an existing folder and skipped an  *)
(* absent one.                                                             *)
C7_Witness ==
    /\ op = "delete_addons" /\ pc = "done" /\ result.ok /\ calls = 1
    /\ \E p \in ListedPaths : exists(disk0, p)
    /\ \E p \in ListedPaths : ~exists(disk0, p)

(* A successful second call with the same list. *)
C7_WitnessAgain ==
    /\ op = "delete_addons" /\ pc = "done" /\ result.ok /\ calls = 2
    /\ addon_folders # <<>>

(* C10: a failed removal makes delete_addons return the error at once;     *)
(* the folders listed before the failing position are gone, and the tree   *)
(* of every folder listed after it (and not listed up to it) is as it was. *)
C10_DeleteAbortsAtFirstFailure ==
    op = "delete_addons" =>
        /\ io_failed => (pc = "done" /\ ~result.ok)
        /\ (pc = "done" /\ ~result.ok) =>
              /\ i \in 1..Len(addon_folders)
              /\ exists(disk, addon_folders[i].path)
              /\ \A j \in 1..(i - 1) : ~exists(disk, addon_folders[j].path)
              /\ \A j \in (i + 1)..Len(addon_folders) :
                    addon_folders[j].path \notin {addon_folders[m].path : m \in 1..i}
                    => \A q \in Tree(disk0, addon_folders[j].path) :
                           q \in DOMAIN disk /\ disk[q] = disk0[q]

(* The removal of the second listed folder failed part-way, after the     *)
(* first one was removed and with a third, existing one after it.          *)
C10_Witness ==
    /\ op = "delete_addons" /\ pc = "done" /\ ~result.ok /\ i = 2
    /\ Len(addon_folders) > 2
    /\ exists(disk0, addon_folders[1].path)
    /\ addon_folders[1].path # addon_folders[2].path
    /\ addon_folders[3].path \notin {addon_folders[1].path, addon_folders[2].path}
    /\ exists(disk0, addon_folders[3].path)
    /\ disk # Without(disk0, Tree(disk0, addon_folders[1].path))

----------------------------------------------------------------------------
(* delete_saved_variables *)

wtf_path == <<Word("wow"), Word("WTF")>>

Account == wtf_path \o <<Word("Account")>>

SavedVariables == Account \o <<Word("SavedVariables")>>

NestedSavedVariables == Account \o <<Word("Char"), Word("SavedVariables")>>

Ids == {"A", "B"}

(* File names that may lie in Account/SavedVariables. *)
Suffixes ==
    { <<>>, <<".", "lua">>, <<".", "lua", ".", "bak">>, <<".", "nonlua">>,
      <<".", "bak">>, <<".", "lua", ".", "lua">>,
      <<".", "lua", ".", "bak", ".", "bak">>,
      <<".", "lua", ".", "lua", ".", "bak">> }

SavedFiles ==
    {SavedVariables \o <<Word("A") \o sfx>> : sfx \in Suffixes}
    \cup {SavedVariables \o <<Word("B") \o sfx>> :
            sfx \in {<<".", "lua">>, <<".", "lua", ".", "bak">>}}
    \cup {Account \o <<<<"A", ".", "lua">>>>,
          NestedSavedVariables \o <<<<"B", ".", "lua">>>>}

(* A directory that may lie in Account/SavedVariables. *)
SavedDirs == {SavedVariables \o <<<<"B", ".", "bak">>>>}

Ancestors(p) == {SubSeq(p, 1, k) : k \in 0..(Len(p) - 1)}

(* The state root holding the chosen files and directories, with the       *)
(* directories above them.                                                 *)
WtfDisk(files) ==
    [p \in Ancestors(SavedVariables) \cup {SavedVariables}
           \cup files \cup UNION {Ancestors(f) : f \in files}
        |-> IF p \in files \ SavedDirs THEN File("lua") ELSE Dir]

InitSaved ==
    /\ op = "delete_saved_variables"
    /\ pc = "delete_saved_variables"
    /\ \E files \in SUBSET (SavedFiles \cup SavedDirs) :
          /\ Cardinality(files) <= MaxFiles
          /\ disk = WtfDisk(files)
    /\ disk0 = disk
    /\ \E names \in SeqsUpTo(Ids, MaxIds) :
           addon_folders = [k \in 1..Len(names) |->
                               [id |-> Word(names[k]),
                                path |-> to_directory \o <<Word(names[k])>>]]
    /\ archive = <<>>
    /\ i = 1
    /\ pending = {}
    /\ toc_files = <<>>
    /\ result = NoResult
    /\ written = {}
    /\ io_failed = FALSE
    /\ calls = 1
    /\ prev = NoPrev
    /\ walk = Tree(disk, wtf_path)
    /\ skipped = {}
    /\ swallowed = {}
    /\ failed_at = "none"

EndsWith(s, pat) ==
    Len(pat) <= Len(s) /\ SubSeq(s, Len(s) - Len(pat) + 1, Len(s)) = pat

(* str::trim_end_matches: removes the suffix as often as it is there. *)
RECURSIVE trim_end_matches(_, _)
trim_end_matches(s, pat) ==
    IF pat # <<>> /\ EndsWith(s, pat)
    THEN trim_end_matches(SubSeq(s, 1, Len(s) - Len(pat)), pat)
    ELSE s

(* The name compared with the folder ids. *)
file_name_str(path) ==
    trim_end_matches(trim_end_matches(FileName(path), <<".", "bak">>), <<".", "lua">>)

(* No test of the parent directory. *)
InAnyDirectory(path) == TRUE

(* `if parent_name == Some("SavedVariables")` *)
InSavedVariables(path) ==
    Len(path) > 1 /\ FileName(Parent(path)) = Word("SavedVariables")

(* The inner `for folder in addon_folders` from index k on: the outcomes.  *)
RECURSIVE RemoveMatches(_, _, _)
RemoveMatches(d, path, k) ==
    IF k > Len(addon_folders)
    THEN {[disk |-> d, ok |-> TRUE, io |-> FALSE]}
    ELSE IF file_name_str(path) = addon_folders[k].id
         THEN UNION { IF o.ok THEN RemoveMatches(o.disk, path, k + 1) ELSE {o}
                      : o \in remove_file(d, path) }
         ELSE RemoveMatches(d, path, k + 1)

(* The walk yields its next entry, or ends. *)
delete_saved_variables ==
    /\ pc = "delete_saved_variables"
    /\ IF walk = {}
       THEN /\ pc' = "done"
            /\ result' = [ok |-> TRUE, folders |-> <<>>]
            /\ UNCHANGED <<disk, walk, io_failed, failed_at>>
       ELSE \E path \in {q \in walk : Parent(q) \notin walk} :
              /\ walk' = walk \ {path}
              /\ IF InSavedVariables(path)
                 THEN \E o \in RemoveMatches(disk, path, 1) :
                        /\ disk' = o.disk
                        /\ io_failed' = (io_failed \/ o.io)
                        /\ IF Fails(o)
                           THEN /\ pc' = "done"
                                /\ result' = NoResult
                                /\ failed_at' = pc
                           ELSE UNCHANGED <<pc, result, failed_at>>
                 ELSE UNCHANGED <<disk, pc, result, io_failed, failed_at>>
    /\ UNCHANGED <<op, disk0, addon_folders, archive, i, pending, toc_files,
                   written, calls, prev, skipped, swallowed>>

(* A walk error that ends the call. *)
AbortOnWalkError == "done"

(* Where the call stands after a walk error: filter_map(Result::ok) drops  *)
(* the entry and the loop goes on.                                         *)
AfterWalkError == "delete_saved_variables"

(* An entry the walk cannot read is dropped by filter_map(Result::ok); a   *)
(* directory that cannot be read yields none of its contents.              *)
WalkError ==
    /\ pc = "delete_saved_variables"
    /\ \E path \in {q \in walk : Parent(q) \notin walk} :
          /\ walk' = {q \in walk : ~IsPrefix(path, q)}
          /\ skipped' = skipped \cup {q \in walk : IsPrefix(path, q)}
    /\ pc' = AfterWalkError
    /\ UNCHANGED <<op, disk, disk0, addon_folders, archive, i, pending,
                   toc_files, result, written, io_failed, calls, prev, swallowed,
                   failed_at>>

NextSaved == delete_saved_variables \/ WalkError

SpecSaved == InitSaved /\ [][NextSaved]_vars

----------------------------------------------------------------------------
(* Claims about delete_saved_variables, checked under SpecSaved. *)

SuppliedIds == {addon_folders[k].id : k \in 1..Len(addon_folders)}

DistinctIds == Cardinality(SuppliedIds) = Len(addon_folders)

(* The files of the state root that lie directly in a SavedVariables       *)
(* directory and are named <id><sfx> for a supplied id.                    *)
NamedFor(sfxs) ==
    {f \in DOMAIN disk0 :
        /\ disk0[f].kind = "file"
        /\ IsPrefix(wtf_path, f)
        /\ InSavedVariables(f)
        /\ \E id \in SuppliedIds, sfx \in sfxs : FileName(f) = id \o sfx}

Deletable == {<<".", "lua">>, <<".", "lua", ".", "bak">>}

(* C3: for a list with distinct ids, a file <id>.<other-suffix> in a       *)
(* SavedVariables directory is never deleted, and after a successful call  *)
(* whose walk had no error every <id>.lua and <id>.lua.bak is deleted, so  *)
(* that exactly the files with an unrecognized suffix remain.              *)
C3_OnlyLuaAndLuaBakDeleted ==
    (op = "delete_saved_variables" /\ DistinctIds) =>
        /\ \A f \in NamedFor(Suffixes \ (Deletable \cup {<<>>})) : exists(disk, f)
        /\ (pc = "done" /\ result.ok /\ skipped = {}) =>
              \A f \in NamedFor(Deletable) : ~exists(disk, f)

(* C9: a file <id>.bak in a SavedVariables directory is never deleted,     *)
(* whereas <id>.lua.bak is deleted by a successful call whose walk had no  *)
(* error.                                                                  *)
C9_BareBakKept ==
    op = "delete_saved_variables" =>
        /\ \A f \in NamedFor({<<".", "bak">>}) : exists(disk, f)
        /\ (pc = "done" /\ result.ok /\ skipped = {}) =>
              \A f \in NamedFor({<<".", "lua", ".", "bak">>}) : ~exists(disk, f)

(* What the code does: every <id>.lua and <id>.lua.bak is deleted, and the *)
(* only file left of the test's layout is the one named <id>.nonlua.       *)
SavedDeletesLuaAndLuaBak ==
    (op = "delete_saved_variables" /\ pc = "done" /\ result.ok /\ skipped = {}) =>
        /\ \A f \in NamedFor(Deletable) : ~exists(disk, f)
        /\ \A f \in NamedFor({<<".", "nonlua">>}) : exists(disk, f)

(* The walk entries the loop body has run for. *)
Visited == (Tree(disk0, wtf_path) \ walk) \ skipped

(* The entry lies directly in a SavedVariables directory and its candidate *)
(* name equals a supplied id.                                              *)
Matched(f) == InSavedVariables(f) /\ file_name_str(f) \in SuppliedIds

(* The reference derivation: at most one trailing .bak is removed, then    *)
(* one trailing .lua, which has to be there; <<c>> is the candidate c, the *)
(* empty sequence stands for no candidate.                                 *)
ReferenceCandidate(name) ==
    LET bak == <<".", "bak">>
        lua == <<".", "lua">>
        a == IF EndsWith(name, bak) THEN SubSeq(name, 1, Len(name) - Len(bak)) ELSE name
    IN  IF EndsWith(a, lua) THEN <<SubSeq(a, 1, Len(a) - Len(lua))>> ELSE <<>>

(* The files of the state root that lie directly in a SavedVariables       *)
(* directory.                                                              *)
SavedVariablesFiles ==
    {f \in DOMAIN disk0 : disk0[f].kind = "file" /\ IsPrefix(wtf_path, f) /\ InSavedVariables(f)}

ReferenceMatched(f) == \E id \in SuppliedIds : ReferenceCandidate(FileName(f)) = <<id>>

(* C14: a file in a SavedVariables directory is deleted iff the reference  *)
(* derivation of its name gives a supplied id: a file it does not match    *)
(* (a repeated suffix, the bare <id>) is never deleted, and a file it does *)
(* match is deleted by a successful call whose walk had no error.          *)
C14_CandidateEqualsReference ==
    op = "delete_saved_variables" =>
        /\ \A f \in SavedVariablesFiles : ~ReferenceMatched(f) => exists(disk, f)
        /\ (pc = "done" /\ result.ok /\ skipped = {}) =>
              \A f \in SavedVariablesFiles : ReferenceMatched(f) => ~exists(disk, f)

(* What the code keeps: every file the reference matches is matched by the *)
(* code as well.                                                           *)
ReferenceMatchedIsMatched ==
    op = "delete_saved_variables" =>
        \A f \in SavedVariablesFiles : ReferenceMatched(f) => Matched(f)

(* No directory of the state root has a matching name. *)
NoMatchedDirectory == \A f \in Tree(disk0, wtf_path) : Matched(f) => disk0[f].kind = "file"

(* C15: each matched file is removed once, also when two supplied folders *)
(* have the same id: a call in which no removal of an existing file failed *)
(* returns success, with every visited matched file gone.                  *)
C15_MatchedFileRemovedOnce ==
    (op = "delete_saved_variables" /\ pc = "done" /\ ~io_failed /\ NoMatchedDirectory) =>
        /\ result.ok
        /\ \A f \in Visited : Matched(f) => ~exists(disk, f)

(* What the code keeps: the same for lists whose ids are distinct.         *)
RemovedOnceForDistinctIds ==
    (op = "delete_saved_variables" /\ pc = "done" /\ ~io_failed /\ NoMatchedDirectory
       /\ DistinctIds) =>
        /\ result.ok
        /\ \A f \in Visited : Matched(f) => ~exists(disk, f)

C19_WitnessDirectory ==
    /\ op = "delete_saved_variables" /\ pc = "done"
    /\ \E f \in Visited : Matched(f) /\ is_dir(disk, f)

(* A call with an empty list visited files and ended. *)
C19_WitnessEmptyList ==
    /\ op = "delete_saved_variables" /\ pc = "done" /\ addon_folders = <<>>
    /\ \E f \in Visited : is_file(disk, f) /\ InSavedVariables(f)

(* C11: a walk error drops entries and the walk goes on, and it alone      *)
(* never fails the call: a returned error comes from the removal of a      *)
(* matched, visited file.  The first failed removal returns the error at   *)
(* once, and no entry the walk had not yet yielded is deleted or changed.  *)
C11_WalkErrorsSkippedDeleteErrorsFatal ==
    op = "delete_saved_variables" =>
        /\ io_failed => (pc = "done" /\ ~result.ok)
        /\ \A q \in walk \cup skipped : q \in DOMAIN disk /\ disk[q] = disk0[q]
        /\ (pc = "done" /\ ~result.ok) =>
              \E f \in Visited : Matched(f) /\ (exists(disk, f) \/ ~DistinctIds)
        /\ (pc = "done" /\ result.ok) =>
              /\ walk = {}
              /\ \A f \in Visited : Matched(f) => ~exists(disk, f)

(* After a walk error a removal failed while a matched file was still to   *)
(* be visited.                                                             *)
C11_Witness ==
    /\ op = "delete_saved_variables" /\ pc = "done" /\ ~result.ok /\ io_failed
    /\ skipped # {}
    /\ \E f \in walk : Matched(f) /\ is_file(disk, f)

(* A call whose walk had an error succeeded and deleted a matched file.    *)
C11_WitnessSkipped ==
    /\ op = "delete_saved_variables" /\ pc = "done" /\ result.ok
    /\ skipped # {}
    /\ \E f \in skipped : Matched(f)
    /\ disk # disk0

----------------------------------------------------------------------------
(* install_addon: names, paths and manifests. *)

from_directory == Interface

primary_folder_id == Word("Foo")

zip_path == from_directory \o <<primary_folder_id>>

(* str::split: the pieces of s between the separators. *)
RECURSIVE SplitOn(_, _)
SplitOn(s, seps) ==
    IF \E k \in 1..Len(s) : s[k] \in seps
    THEN LET k == CHOOSE k \in 1..Len(s) :
                     s[k] \in seps /\ \A m \in 1..(k - 1) : s[m] \notin seps
         IN  <<SubSeq(s, 1, k - 1)>> \o SplitOn(SubSeq(s, k + 1, Len(s)), seps)
    ELSE <<s>>

(* `name.split('/').next()` *)
TopLevel(name) == SplitOn(name, {"/"})[1]

new_top_level_folders == {TopLevel(archive[k].name) : k \in 1..Len(archive)}

(* std::path::Component::Normal: not empty, not `.`, not `..`. *)
IsNormal(component) == component \notin {<<>>, <<".">>, <<".", ".">>}

(* ZipFile::sanitized_name: both separators split the name, and only the   *)
(* Normal components are kept.                                             *)
sanitized_name(name) == SelectSeq(SplitOn(name, {"/", "\\"}), IsNormal)

(* A path as the operating system resolves it: `.` and empty components    *)
(* are skipped, `..` steps to the parent.                                  *)
RECURSIVE Resolve(_, _)
Resolve(base, rest) ==
    IF rest = <<>> THEN base
    ELSE IF rest[1] \in {<<>>, <<".">>} THEN Resolve(base, Tail(rest))
    ELSE IF rest[1] = <<".", ".">> THEN Resolve(Parent(base), Tail(rest))
    ELSE Resolve(Append(base, rest[1]), Tail(rest))

(* The entry name joined as it is. *)
JoinUnsanitized(name) == Resolve(to_directory, SplitOn(name, {"/"}))

(* `to_directory.join(file.sanitized_name())` *)
DestPath(name) == to_directory \o sanitized_name(name)

(* ZipFile::is_dir: the name ends with a separator. *)
entry_is_dir(name) == name # <<>> /\ name[Len(name)] \in {"/", "\\"}

(* A file name with any extension. *)
HasAnyExtension(component, ext) == \E k \in 2..Len(component) : component[k] = "."

(* Path::extension() == Some(ext): the part of the file name after its     *)
(* last dot, when something precedes that dot.                             *)
HasExtension(component, ext) ==
    \E k \in 2..Len(component) :
        /\ component[k] = "."
        /\ \A m \in (k + 1)..Len(component) : component[m] # "."
        /\ SubSeq(component, k + 1, Len(component)) = ext

(* A .toc file at any depth. *)
IsTocAtAnyDepth(path) ==
    /\ IsPrefix(to_directory, path)
    /\ Len(path) > Len(to_directory)
    /\ HasExtension(FileName(path), Word("toc"))

(* `ext == "toc" && remainder.components().count() == 2` *)
IsTocFile(path) ==
    /\ IsPrefix(to_directory, path)
    /\ Len(path) > Len(to_directory)
    /\ HasExtension(FileName(path), Word("toc"))
    /\ Len(path) - Len(to_directory) = 2

(* The identity a manifest file name stands for: the name without its      *)
(* extension and without a trailing -<flavour>.                            *)
TocId(file_name) ==
    LET dot == CHOOSE k \in 1..Len(file_name) :
                   file_name[k] = "." /\ \A m \in (k + 1)..Len(file_name) : file_name[m] # "."
        stem == SubSeq(file_name, 1, dot - 1)
    IN  IF Len(stem) > 2 /\ stem[Len(stem) - 1] = "-"
        THEN SubSeq(stem, 1, Len(stem) - 2)
        ELSE stem

(* parse_toc_path: Some(AddonFolder) (a one-element sequence) for a        *)
(* readable, well-formed manifest, None (the empty sequence) otherwise.    *)
parse_toc_path(d, toc_path) ==
    IF is_file(d, toc_path) /\ d[toc_path].data = "toc"
    THEN <<[id |-> TocId(FileName(toc_path)), path |-> Parent(toc_path)]>>
    ELSE <<>>

(* The natural order of AddonFolder: by id, then by path; strings compare  *)
(* token by token in TokenOrder.                                           *)
TokenOrder ==
    <<"-", ".", "/", "A", "AddOns", "B", "Bar", "Baz", "Foo", "Interface",
      "Keep", "Lib", "\\", "a", "bak", "lua", "nonlua", "old", "toc", "top", "wow", "x">>

Rank(t) == CHOOSE k \in 1..Len(TokenOrder) : TokenOrder[k] = t

(* The first position at which two sequences differ, 0 when one is a      *)
(* prefix of the other.                                                    *)
FirstDiff(a, b) ==
    LET diff == {k \in 1..Len(a) : k <= Len(b) /\ a[k] # b[k]}
    IN  IF diff = {} THEN 0 ELSE CHOOSE k \in diff : \A m \in diff : k <= m

StrLess(a, b) ==
    LET k == FirstDiff(a, b)
    IN  IF k = 0 THEN Len(a) < Len(b) ELSE Rank(a[k]) < Rank(b[k])

PathLess(p, q) ==
    LET k == FirstDiff(p, q)
    IN  IF k = 0 THEN Len(p) < Len(q) ELSE StrLess(p[k], q[k])

FolderLess(x, y) == StrLess(x.id, y.id) \/ (x.id = y.id /\ PathLess(x.path, y.path))

(* Vec::sort *)
RECURSIVE Insert(_, _)
Insert(x, s) ==
    IF s = <<>> THEN <<x>>
    ELSE IF FolderLess(s[1], x) THEN <<s[1]>> \o Insert(x, Tail(s))
    ELSE <<x>> \o s

RECURSIVE sort(_)
sort(s) == IF s = <<>> THEN <<>> ELSE Insert(s[1], sort(Tail(s)))

(* Vec::dedup: drops an element equal to the one before it. *)
RECURSIVE dedup(_)
dedup(s) ==
    IF Len(s) < 2 THEN s
    ELSE IF s[1] = s[2] THEN dedup(Tail(s))
    ELSE <<s[1]>> \o dedup(Tail(s))

RECURSIVE FilterMapParse(_, _)
FilterMapParse(d, paths) ==
    IF paths = <<>> THEN <<>>
    ELSE parse_toc_path(d, paths[1]) \o FilterMapParse(d, Tail(paths))

(* The parsed manifests sorted, duplicates kept. *)
ParsedSorted(d, paths) == sort(FilterMapParse(d, paths))

(* Lines 121-124: the folder list returned for the collected manifests. *)
ReturnedFolders(d, paths) == dedup(sort(FilterMapParse(d, paths)))

(* std::fs::create_dir_all(p): every missing directory down to p is made,  *)
(* from the top; a file on the way is an error.                            *)
Prefixes(p, n) == {SubSeq(p, 1, k) : k \in 0..n}

create_dir_all(d, p) ==
    LET missing(n) == Prefixes(p, n) \ DOMAIN d
        made(n) == [disk |-> With(d, [q \in missing(n) |-> Dir]),
                    ok |-> n = Len(p), io |-> n < Len(p), made |-> missing(n)]
    IN  IF \E q \in Prefixes(p, Len(p)) : is_file(d, q)
        THEN {[disk |-> d, ok |-> FALSE, io |-> FALSE, made |-> {}]}
        ELSE {made(Len(p))} \cup
             {made(n) : n \in {n \in 0..(Len(p) - 1) : missing(Len(p)) # {}}}

(* File::create(path) followed by io::copy of the entry's bytes.  A name   *)
(* without a Normal component gives `to_directory/`, which no file can be. *)
write_file(d, path, data) ==
    IF path = to_directory \/ is_dir(d, path) \/ ~is_dir(d, Parent(path))
    THEN {[disk |-> d, ok |-> FALSE, io |-> FALSE, made |-> {}]}
    ELSE {[disk |-> With(d, [q \in {path} |-> File(data)]),
           ok |-> TRUE, io |-> FALSE, made |-> {path}],
          [disk |-> d, ok |-> FALSE, io |-> TRUE, made |-> {}],
          [disk |-> With(d, [q \in {path} |-> File("partial")]),
           ok |-> FALSE, io |-> TRUE, made |-> {path}]}

(* Lines 105-115: the entry is laid down at path. *)
extract_entry(d, e, path) ==
    IF entry_is_dir(e.name)
    THEN create_dir_all(d, path)
    ELSE LET parents == IF exists(d, Parent(path))
                        THEN {[disk |-> d, ok |-> TRUE, io |-> FALSE, made |-> {}]}
                        ELSE create_dir_all(d, Parent(path))
         IN  UNION { IF o.ok
                     THEN {[w EXCEPT !.made = w.made \cup o.made]
                             : w \in write_file(o.disk, path, e.data)}
                     ELSE {o}
                     : o \in parents }

----------------------------------------------------------------------------
(* install_addon: the call. *)

Entry(name, data) == [name |-> name, data |-> data]

(* The entries an archive is made of. *)
EntryChoices ==
    { Entry(<<"Foo", "/", "Foo", ".", "toc">>, "toc"),
      Entry(<<"Foo", "/", "Foo", "-", "Lib", ".", "toc">>, "toc"),
      Entry(<<"Bar", "/", "Bar", ".", "toc">>, "toc"),
      Entry(<<"Bar", "/", "Bar", ".", "toc">>, "junk"),
      Entry(<<"Foo", "/">>, "none"),
      Entry(<<"Foo", "/", "Lib", "/", "Lib", ".", "toc">>, "toc"),
      Entry(<<"top", ".", "toc">>, "toc"),
      Entry(<<".", "/", "Foo", "/", "Foo", ".", "toc">>, "toc"),
      Entry(<<".", ".", "/", "Foo", "/", "a", ".", "lua">>, "lua"),
      Entry(<<"/", "Foo", "/", "a", ".", "lua">>, "lua"),
      Entry(<<"Foo", "\\", "Foo", ".", "toc">>, "toc") }

(* The folders removed before the archive is opened. *)
RemoveBeforeOpen == <<"remove_existing", "open", "remove_new", "extract">>

(* The order of the steps of install_addon before the cleanup. *)
StepOrder == <<"open", "remove_existing", "remove_new", "extract">>

StepAfter(step) == StepOrder[1 + CHOOSE k \in 1..Len(StepOrder) : StepOrder[k] = step]

(* The archive file can be opened and is a zip archive. *)
IsArchive(d) == is_file(d, zip_path) /\ d[zip_path].data = "zip"

InstalledNames == {"Foo", "Bar"}

InitInstall ==
    /\ op = "install_addon"
    /\ pc = StepOrder[1]
    /\ \E present \in {{}, InstalledNames}, zip \in {"zip", "junk", "absent"} :
          /\ disk = With(WithFolders(BaseDisk, present),
                         [q \in IF zip = "absent" THEN {} ELSE {zip_path} |-> File(zip)])
          /\ IF zip = "zip"
             THEN archive \in SeqsUpTo(EntryChoices, MaxEntries)
             ELSE archive = <<>>
    /\ disk0 = disk
    /\ \E names \in SeqsUpTo(InstalledNames, Cardinality(InstalledNames)) :
          /\ addon_folders = [k \in 1..Len(names) |-> AddonFolder(names[k])]
          /\ \A a, b \in 1..Len(names) :
                a < b => FolderLess(addon_folders[a], addon_folders[b])
    /\ i = 1
    /\ pending = {}
    /\ toc_files = <<>>
    /\ result = NoResult
    /\ written = {}
    /\ io_failed = FALSE
    /\ calls = 1
    /\ prev = NoPrev
    /\ walk = {}
    /\ skipped = {}
    /\ swallowed = {}
    /\ failed_at = "none"

Return(r) ==
    /\ pc' = "done"
    /\ result' = r
    /\ failed_at' = IF r.ok THEN failed_at ELSE pc

(* Lines 63-65: File::open and ZipArchive::new. *)
install_open ==
    /\ pc = "open"
    /\ \/ /\ IsArchive(disk)
          /\ pc' = StepAfter(pc)
          /\ UNCHANGED <<result, failed_at, io_failed>>
       \/ /\ io_failed' = (io_failed \/ IsArchive(disk))
          /\ Return(NoResult)
    /\ i' = 1
    /\ UNCHANGED <<op, disk, disk0, addon_folders, archive, pending, toc_files,
                   written, calls, prev, walk, skipped, swallowed>>

(* Lines 67-79: one iteration of the loop over addon.folders; after the    *)
(* last one the new top-level folders are collected.                       *)
install_remove_existing ==
    /\ pc = "remove_existing"
    /\ IF i > Len(addon_folders)
       THEN /\ pc' = StepAfter(pc)
            /\ pending' = new_top_level_folders
            /\ i' = 1
            /\ UNCHANGED <<disk, result, failed_at, io_failed>>
       ELSE LET path == addon_folders[i].path
            IN  /\ IF exists(disk, path)
                   THEN \E o \in remove_dir_all(disk, path, TRUE) :
                          /\ disk' = o.disk
                          /\ io_failed' = (io_failed \/ o.io)
                          /\ IF o.ok
                             THEN /\ i' = i + 1
                                  /\ UNCHANGED <<pc, result, failed_at>>
                             ELSE /\ Return(NoResult)
                                  /\ UNCHANGED i
                   ELSE /\ i' = i + 1
                        /\ UNCHANGED <<disk, pc, result, failed_at, io_failed>>
                /\ UNCHANGED pending
    /\ UNCHANGED <<op, disk0, addon_folders, archive, toc_files, written, calls,
                   prev, walk, skipped, swallowed>>

(* `to_directory.join(&folder)` as the operating system resolves it. *)
TopLevelPath(folder) == Resolve(to_directory, <<folder>>)

(* path.exists(): `to_directory/`, `to_directory/.` and `to_directory/..`  *)
(* exist when to_directory is a directory.                                 *)
TopLevelExists(d, folder) ==
    IF IsNormal(folder) THEN exists(d, TopLevelPath(folder)) ELSE is_dir(d, to_directory)

(* The final rmdir of `to_directory/.` and `to_directory/..` fails. *)
TopLevelRmdir(folder) == folder \notin {<<".">>, <<".", ".">>}

(* A failed removal of a new top-level folder that is returned. *)
RemovalReturned(o) == ~o.ok

(* `let _ = std::fs::remove_dir_all(path);`: the result is dropped, so a   *)
(* failed removal of a new top-level folder never returns.                 *)
RemovalFails(o) == FALSE

(* Lines 81-88: one new top-level folder, in the HashSet's order; a failed *)
(* removal is ignored.                                                     *)
install_remove_new ==
    /\ pc = "remove_new"
    /\ IF pending = {}
       THEN /\ pc' = StepAfter(pc)
            /\ i' = 1
            /\ UNCHANGED <<disk, pending, swallowed, io_failed, result, failed_at>>
       ELSE \E folder \in pending :
              /\ pending' = pending \ {folder}
              /\ IF TopLevelExists(disk, folder)
                 THEN \E o \in remove_dir_all(disk, TopLevelPath(folder),
                                              TopLevelRmdir(folder)) :
                        /\ disk' = o.disk
                        /\ io_failed' = (io_failed \/ o.io)
                        /\ swallowed' = IF o.ok THEN swallowed
                                        ELSE swallowed \cup {folder}
                        /\ IF RemovalFails(o)
                           THEN Return(NoResult)
                           ELSE UNCHANGED <<pc, result, failed_at>>
                 ELSE UNCHANGED <<disk, swallowed, io_failed, pc, result, failed_at>>
              /\ UNCHANGED i
    /\ UNCHANGED <<op, disk0, addon_folders, archive, toc_files, written,
                   calls, prev, walk, skipped>>

(* A failed cleanup that is not returned. *)
CleanupIgnored(o) == FALSE

(* `std::fs::remove_file(&zip_path)?`: a failed cleanup is returned. *)
CleanupFails(o) == ~o.ok

(* Lines 92-116: one archive entry; after the last one, lines 118-126:     *)
(* the archive is removed and the folder list is returned.                 *)
install_extract ==
    /\ pc = "extract"
    /\ IF i > Len(archive)
       THEN /\ \E o \in remove_file(disk, zip_path) :
                  /\ disk' = o.disk
                  /\ io_failed' = (io_failed \/ o.io)
                  /\ IF CleanupFails(o)
                     THEN /\ pc' = "done"
                          /\ result' = NoResult
                          /\ failed_at' = "cleanup"
                     ELSE Return([ok |-> TRUE,
                                  folders |-> ReturnedFolders(o.disk, toc_files)])
            /\ UNCHANGED <<i, toc_files, written>>
       ELSE \/ /\ io_failed' = TRUE
               /\ Return(NoResult)
               /\ UNCHANGED <<disk, i, toc_files, written>>
            \/ LET e == archive[i]
                   path == DestPath(e.name)
               IN  /\ toc_files' = IF IsTocFile(path)
                                   THEN Append(toc_files, path)
                                   ELSE toc_files
                   /\ \E o \in extract_entry(disk, e, path) :
                         /\ disk' = o.disk
                         /\ written' = written \cup o.made
                         /\ io_failed' = (io_failed \/ o.io)
                         /\ IF o.ok
                            THEN /\ i' = i + 1
                                 /\ UNCHANGED <<pc, result, failed_at>>
                            ELSE /\ Return(NoResult)
                                 /\ UNCHANGED i
    /\ UNCHANGED <<op, disk0, addon_folders, archive, pending, calls, prev, walk,
                   skipped, swallowed>>

(* After an install without any I/O failure the caller downloads the same  *)
(* archive again and installs it again, the addon now holding the folders  *)
(* the first call returned.                                                *)
InstallAgain ==
    /\ op = "install_addon"
    /\ pc = "done"
    /\ result.ok
    /\ ~io_failed
    /\ calls = 1
    /\ is_dir(disk, from_directory)
    /\ ~is_dir(disk, zip_path)
    /\ calls' = calls + 1
    /\ prev' = [result |-> result, disk |-> disk, clean |-> ~io_failed]
    /\ disk' = With(disk, [q \in {zip_path} |-> File("zip")])
    /\ disk0' = disk'
    /\ addon_folders' = result.folders
    /\ pc' = StepOrder[1]
    /\ i' = 1
    /\ pending' = {}
    /\ toc_files' = <<>>
    /\ result' = NoResult
    /\ written' = {}
    /\ io_failed' = FALSE
    /\ swallowed' = {}
    /\ failed_at' = "none"
    /\ UNCHANGED <<op, archive, walk, skipped>>

NextInstall ==
    \/ install_open
    \/ install_remove_existing
    \/ install_remove_new
    \/ install_extract
    \/ InstallAgain

SpecInstall == InitInstall /\ [][NextInstall]_vars

----------------------------------------------------------------------------
(* Claims about install_addon, checked under SpecInstall. *)

Inside(p) == IsPrefix(to_directory, p)

(* The part of the filesystem at and below to_directory. *)
InstalledTree(d) == [q \in {q \in DOMAIN d : Inside(q)} |-> d[q]]

Succeeded == op = "install_addon" /\ pc = "done" /\ result.ok

(* C1: every directory created and every file written by the extraction    *)
(* lies inside to_directory, whatever the entry names are, and no path      *)
(* outside to_directory is created or changed by the call.                  *)
C1_ExtractionContained ==
    op = "install_addon" =>
        /\ \A p \in written : Inside(p)
        /\ \A p \in DOMAIN disk : ~Inside(p) => (p \in DOMAIN disk0 /\ disk[p] = disk0[p])

(* An entry whose name starts with `..` has been extracted. *)
C1_Witness ==
    /\ op = "install_addon" /\ pc = "extract" /\ i > 1
    /\ TopLevel(archive[1].name) = <<".", ".">>
    /\ DestPath(archive[1].name) \in written

(* C2: when the archive cannot be opened or is no archive, install_addon   *)
(* returns an error before any other step and the filesystem is as it was. *)
C2_OpenFailureChangesNothing ==
    op = "install_addon" =>
        /\ ~IsArchive(disk0) =>
              /\ pc \in {"open", "done"}
              /\ pc = "done" => (~result.ok /\ disk = disk0)
        /\ (pc = "done" /\ failed_at = "open") => (~result.ok /\ disk = disk0)

(* The call failed on a file that is no archive while a folder of          *)
(* addon.folders was on disk.                                              *)
C2_Witness ==
    /\ op = "install_addon" /\ pc = "done" /\ failed_at = "open"
    /\ is_file(disk0, zip_path) /\ ~IsArchive(disk0)
    /\ \E k \in 1..Len(addon_folders) : exists(disk, addon_folders[k].path)

C4_WitnessSorted ==
    /\ Succeeded
    /\ Len(toc_files) = 2 /\ Len(result.folders) = 2
    /\ Parent(toc_files[1]) = result.folders[2].path

(* C5: every returned folder is a directory directly under to_directory    *)
(* and was parsed from a collected manifest that this call wrote.          *)
C5_ReturnedFoldersExtracted ==
    Succeeded =>
        \A a \in 1..Len(result.folders) :
            /\ is_dir(disk, result.folders[a].path)
            /\ Parent(result.folders[a].path) = to_directory
            /\ \E k \in 1..Len(toc_files) :
                  /\ toc_files[k] \in written
                  /\ is_file(disk, toc_files[k])
                  /\ parse_toc_path(disk, toc_files[k]) = <<result.folders[a]>>

(* A folder was returned although the archive also held a manifest that    *)
(* parses to nothing or lies deeper.                                       *)
C5_Witness ==
    /\ Succeeded
    /\ Len(result.folders) = 1
    /\ Len(archive) = 2
    /\ Len(toc_files) < 2 \/ parse_toc_path(disk, toc_files[2]) = <<>>

(* C6: a second install of the same archive, with the first call's result  *)
(* as addon.folders and no I/O failure in either call, returns the same    *)
(* list and leaves the same tree under to_directory as the first.          *)
C6_InstallIdempotent ==
    (Succeeded /\ calls = 2 /\ prev.clean /\ ~io_failed) =>
        /\ result.folders = prev.result.folders
        /\ InstalledTree(disk) = InstalledTree(prev.disk)

(* The same, for archives whose names have no backslash. *)
InstallIdempotentWithoutBackslash ==
    (Succeeded /\ calls = 2 /\ prev.clean /\ ~io_failed
       /\ \A k \in 1..Len(archive) : "\\" \notin Range(archive[k].name)) =>
        /\ result.folders = prev.result.folders
        /\ InstalledTree(disk) = InstalledTree(prev.disk)

(* C8: after a successful install the archive file does not exist; when    *)
(* its removal fails after all entries were extracted, an error and no     *)
(* list is returned and what was extracted is still on disk.               *)
C8_ArchiveCleanup ==
    (op = "install_addon" /\ pc = "done") =>
        /\ result.ok => ~exists(disk, zip_path)
        /\ failed_at = "cleanup" =>
              /\ ~result.ok /\ result.folders = <<>>
              /\ i > Len(archive)
              /\ \A p \in written : exists(disk, p)
              /\ \A k \in 1..Len(archive) : exists(disk, DestPath(archive[k].name))

(* The removal of the archive failed after a manifest was extracted. *)
C8_Witness ==
    /\ op = "install_addon" /\ pc = "done" /\ failed_at = "cleanup"
    /\ exists(disk, zip_path)
    /\ toc_files # <<>>
    /\ is_file(disk, toc_files[1])

(* The directories directly under to_directory. *)
TopLevelDirs(d) == {p \in DOMAIN d : Parent(p) = to_directory /\ Len(p) > 0 /\ d[p].kind = "dir"}

(* The top-level folders an archive names: the first segment of each raw   *)
(* entry name and the first component of each destination.                 *)
NamedTopLevel ==
    {to_directory \o <<TopLevel(archive[k].name)>> : k \in 1..Len(archive)}
    \cup {SubSeq(DestPath(archive[k].name), 1, Len(to_directory) + 1)
            : k \in {k \in 1..Len(archive) : sanitized_name(archive[k].name) # <<>>}}

(* The tree at p is as it was when the call started. *)
TreeUnchanged(p) ==
    /\ Tree(disk, p) = Tree(disk0, p)
    /\ \A q \in Tree(disk0, p) : disk[q] = disk0[q]

(* C12: install_addon never deletes to_directory or an ancestor of it, it  *)
(* deletes nothing outside to_directory but the archive file, and every    *)
(* top-level directory that is neither a folder of addon.folders nor the   *)
(* top-level folder of an archive entry is left as it was.                 *)
C12_DeletionConfined ==
    op = "install_addon" =>
        /\ \A k \in 0..Len(to_directory) : is_dir(disk, SubSeq(to_directory, 1, k))
        /\ \A p \in DOMAIN disk0 :
              (~Inside(p) /\ p # zip_path) => (p \in DOMAIN disk /\ disk[p] = disk0[p])
        /\ \A p \in TopLevelDirs(disk0) :
              (p \notin ListedPaths /\ p \notin NamedTopLevel) => TreeUnchanged(p)

(* What the code keeps: when every raw entry name starts with a Normal     *)
(* segment, the deletions are confined as C12 says.                        *)
DeletionConfinedForNormalNames ==
    (op = "install_addon" /\ \A k \in 1..Len(archive) : IsNormal(TopLevel(archive[k].name))) =>
        /\ \A k \in 0..Len(to_directory) : is_dir(disk, SubSeq(to_directory, 1, k))
        /\ \A p \in DOMAIN disk0 :
              (~Inside(p) /\ p # zip_path) => (p \in DOMAIN disk /\ disk[p] = disk0[p])
        /\ \A p \in TopLevelDirs(disk0) :
              (p \notin ListedPaths /\ p \notin NamedTopLevel) => TreeUnchanged(p)

(* The top-level directories that received an entry of the archive. *)
ReceivedEntry(d) ==
    {p \in TopLevelDirs(d) : \E k \in 1..Len(archive) : IsPrefix(p, DestPath(archive[k].name))}

(* C13: after a successful install in which no removal of a new top-level  *)
(* folder failed, every top-level directory that received an entry holds   *)
(* only files and directories extracted by this call.                      *)
C13_NoMergeWithLeftovers ==
    (Succeeded /\ swallowed = {}) =>
        \A p \in ReceivedEntry(disk) : Tree(disk, p) \ {p} \subseteq written

(* What the code keeps: the same for archives whose names have no          *)
(* backslash.                                                              *)
NoMergeWithoutBackslash ==
    (Succeeded /\ swallowed = {}
       /\ \A k \in 1..Len(archive) : "\\" \notin Range(archive[k].name)) =>
        \A p \in ReceivedEntry(disk) : Tree(disk, p) \ {p} \subseteq written

(* The path relative to to_directory has exactly two segments and its file *)
(* name ends in .toc.                                                      *)
IsManifestCandidate(path) ==
    /\ Inside(path)
    /\ Len(path) = Len(to_directory) + 2
    /\ Len(FileName(path)) > 2
    /\ EndsWith(FileName(path), <<".", "toc">>)

(* The destinations of the first n entries that are manifest candidates,   *)
(* in archive order.                                                       *)
RECURSIVE Candidates(_)
Candidates(n) ==
    IF n = 0 THEN <<>>
    ELSE LET path == DestPath(archive[n].name)
         IN  IF IsManifestCandidate(path)
             THEN Append(Candidates(n - 1), path)
             ELSE Candidates(n - 1)

(* C16: the destination of an entry is collected as a manifest iff its     *)
(* extension is toc and it lies exactly two segments below to_directory;   *)
(* a .toc path in the root or deeper is never collected, and every         *)
(* returned folder is the parent of a collected two-segment manifest.      *)
C16_ManifestClassification ==
    op = "install_addon" =>
        /\ \A k \in 1..Len(toc_files) : IsManifestCandidate(toc_files[k])
        /\ pc \in {"open", "remove_existing", "remove_new"} => toc_files = <<>>
        /\ pc = "extract" => toc_files = Candidates(i - 1)
        /\ (pc = "done" /\ result.ok) =>
              /\ toc_files = Candidates(Len(archive))
              /\ \A a \in 1..Len(result.folders) :
                    \E k \in 1..Len(archive) :
                        /\ IsManifestCandidate(DestPath(archive[k].name))
                        /\ Parent(DestPath(archive[k].name)) = result.folders[a].path

(* A successful install of an archive with a two-segment manifest and a    *)
(* .toc entry in the root or deeper: one path collected, one folder        *)
(* returned.                                                               *)
C16_Witness ==
    /\ Succeeded
    /\ Len(archive) = 2
    /\ \E k \in 1..2 :
          /\ EndsWith(archive[k].name, <<".", "toc">>)
          /\ Len(DestPath(archive[k].name)) # Len(to_directory) + 2
          /\ is_file(disk, DestPath(archive[k].name))
    /\ Len(toc_files) = 1
    /\ Len(result.folders) = 1

(* The paths the extraction of the first n entries can have created: the   *)
(* destinations and the directories above them.                            *)
DestinationsUpTo(n) ==
    UNION {Prefixes(DestPath(archive[k].name), Len(DestPath(archive[k].name)))
             : k \in 1..n}

(* C17: a failed removal of a new top-level folder is swallowed: it never  *)
(* is the returned error and it is the only failure after which the call   *)
(* goes on.  A failed removal of a folder of addon.folders returns an      *)
(* error before anything is extracted; a failure to create a directory,    *)
(* to write a file or to read an entry returns an error at that entry and  *)
(* no later entry is extracted.                                            *)
C17_FailureAsymmetry ==
    op = "install_addon" =>
        /\ (pc = "done" /\ ~result.ok) =>
              failed_at \in {"open", "remove_existing", "extract", "cleanup"}
        /\ (io_failed /\ pc # "done") => swallowed # {}
        /\ (pc = "done" /\ failed_at = "remove_existing") =>
              /\ ~result.ok
              /\ i \in 1..Len(addon_folders)
              /\ written = {} /\ toc_files = <<>>
              /\ swallowed = {} /\ pending = {}
        /\ (pc = "done" /\ failed_at = "extract") =>
              /\ ~result.ok
              /\ i \in 1..Len(archive)
              /\ written \subseteq DestinationsUpTo(i)

(* An install succeeded and extracted entries although the removal of a    *)
(* new top-level folder had failed.                                        *)
C17_Witness ==
    /\ Succeeded
    /\ swallowed # {}
    /\ written # {}
    /\ \E k \in 1..Len(archive) : is_file(disk, DestPath(archive[k].name))

(* The extraction failed at the first of two entries whose destinations    *)
(* differ.                                                                 *)
C17_WitnessFatal ==
    /\ op = "install_addon" /\ pc = "done" /\ failed_at = "extract"
    /\ i = 1 /\ Len(archive) = 2
    /\ ~IsPrefix(Parent(DestPath(archive[2].name)), DestPath(archive[1].name))
    /\ ~exists(disk, DestPath(archive[2].name))

(* The removal of a folder of addon.folders failed. *)
C17_WitnessExisting ==
    /\ op = "install_addon" /\ pc = "done" /\ failed_at = "remove_existing"
    /\ archive # <<>>

(* The loop over addon.folders has finished. *)
ExistingRemoved ==
    \/ pc \in {"remove_new", "extract"}
    \/ pc = "done" /\ (result.ok \/ failed_at \in {"extract", "cleanup"})

(* The last file entry before index n that has the destination of entry k. *)
LastWrite(k, n) ==
    LET same == {m \in 1..(n - 1) :
                   /\ ~entry_is_dir(archive[m].name)
                   /\ DestPath(archive[m].name) = DestPath(archive[k].name)}
    IN  CHOOSE m \in same : \A l \in same : l <= m

(* The file entries before index n are on disk, each destination with the  *)
(* bytes of the last entry written to it.                                  *)
ExtractedInOrder(n) ==
    \A k \in 1..(n - 1) :
        ~entry_is_dir(archive[k].name) =>
            /\ is_file(disk, DestPath(archive[k].name))
            /\ disk[DestPath(archive[k].name)].data = archive[LastWrite(k, n)].data

StepOrdering ==
    /\ pc \in {"open", "remove_existing", "remove_new"} => written = {}
    /\ written # {} => (pending = {} /\ ExistingRemoved)
    /\ ExistingRemoved =>
          \A j \in 1..Len(addon_folders) : Tree(disk, addon_folders[j].path) \subseteq written
    /\ pc = "extract" => ExtractedInOrder(i)
    /\ (pc = "done" /\ (result.ok \/ failed_at = "cleanup")) =>
          ExtractedInOrder(Len(archive) + 1)
    /\ (IsArchive(disk0) /\ ~exists(disk, zip_path)) =>
          (pc = "done" /\ result.ok /\ i > Len(archive))
    /\ (pc = "done" /\ failed_at \in {"remove_existing", "extract"}) =>
          /\ is_file(disk, zip_path)
          /\ \A w \in written : exists(disk, w)
          /\ failed_at = "remove_existing" =>
                \A j \in 1..(i - 1) : ~exists(disk, addon_folders[j].path)
          /\ failed_at = "extract" =>
                \A k \in 1..(i - 1) : exists(disk, DestPath(archive[k].name))

(* C18: nothing is written before the folders of addon.folders are removed *)
(* and the new top-level folders are cleared; the entries are extracted in *)
(* index order, a later entry overwriting an earlier one; the archive file *)
(* is deleted only after the last entry, so it exists when an error is     *)
(* returned before the cleanup; nothing is rolled back.                    *)
C18_StepOrdering == op = "install_addon" => StepOrdering

(* What the code keeps: the same for archives in which no entry name       *)
(* starts with the segment `..`.                                           *)
StepOrderingWithoutParentSegment ==
    (op = "install_addon"
       /\ \A k \in 1..Len(archive) : TopLevel(archive[k].name) # <<".", ".">>) =>
        StepOrdering

====
